---- MODULE Spec2Model ----
(***************************************************************************)
(* Credential / session lifecycle of the FastAPI skeleton: login, refresh  *)
(* and logout (app/api/routes/auth.py) over the JWT codec                  *)
(* (app/core/security.py), the refresh_tokens table and the token-bucket   *)
(* rate limiter (app/core/rate_limit.py).                                  *)
(*                                                                         *)
(* Time is counted in ticks, TicksPerSec ticks to the second, so that the  *)
(* sub-second part of datetime values (kept by the table, dropped by the   *)
(* JWT NumericDate) is visible.  A handler is cut at its suspension points *)
(* (await db.execute / await db.commit): each action is the code that runs *)
(* between two of them.                                                    *)
(***************************************************************************)
EXTENDS Integers, Sequences, FiniteSets, TLC

(* ------------------------------ bounds -------------------------------- *)
TicksPerSec == 2
MaxRequests == 3
MaxEvents == 2
MaxBurst == 7
MaxCalls == 8
MaxProbes == 4

(* ---------------------- app/core/config.py ---------------------------- *)
ACCESS_TOKEN_EXPIRES_MINUTES == 15
REFRESH_TOKEN_EXPIRES_DAYS == 7
RATE_LIMIT_DEFAULT_LIMIT == 60
RATE_LIMIT_DEFAULT_WINDOW == 60
RATE_LIMIT_LOGIN_LIMIT == 5
RATE_LIMIT_LOGIN_WINDOW == 60

(* ------------------------------ domains ------------------------------- *)
UserIds == {1}
JtiOrder == <<"j1", "j2">>
JTIs == {JtiOrder[i] : i \in DOMAIN JtiOrder}

Seconds(n) == n * TicksPerSec
timedelta_minutes(m) == Seconds(60 * m)
timedelta_days(d) == Seconds(86400 * d)

\* the User rows that registration has created: id, email, password hash, role
EmailOf(u) == IF u = 1 THEN "user1@x" ELSE "nobody@x"
PasswordOf(u) == IF u = 1 THEN "secret1" ELSE "guess"
RoleOf(u) == IF u = 1 THEN "admin" ELSE "user"

\* passlib is an opaque hash / verify pair
get_password_hash(password) == [scheme |-> "bcrypt", of |-> password]
verify_password(plain_password, hashed_password) ==
    hashed_password = get_password_hash(plain_password)

\* str(user_id) and int(sub), for the one-digit ids of UserIds
Digits == <<"0", "1", "2", "3", "4", "5", "6", "7", "8", "9">>
str(n) == Digits[n + 1]
int(s) == CHOOSE n \in 0..9 : Digits[n + 1] = s

(* ------------------------ app/core/security.py ------------------------ *)
\* A token is its claim set plus the state of its signature.  jose writes a
\* datetime "exp" as a NumericDate: whole seconds, the fraction dropped.
NoToken == [sig |-> "none", typ |-> "none", sub |-> "none", jti |-> "none",
            role |-> "none", exp |-> 0]

jwt_encode(to_encode) == [to_encode EXCEPT !.exp = to_encode.exp \div TicksPerSec,
                                           !.sig = "valid"]

create_access_token(subject, role, t) ==
    LET expire == t + timedelta_minutes(ACCESS_TOKEN_EXPIRES_MINUTES)
    IN  jwt_encode([NoToken EXCEPT !.sub = subject, !.exp = expire,
                                   !.role = role, !.typ = "access"])

\* returns (token, jti, expire); uuid4 is the value uuid.uuid4() yields when
\* the caller gives no jti ("none"), expires_days = -1 stands for None
create_refresh_token(user_id, jti, expires_days, uuid4, t) ==
    LET jti_ == IF jti = "none" THEN uuid4 ELSE jti
        days == IF expires_days = -1 THEN REFRESH_TOKEN_EXPIRES_DAYS ELSE expires_days
        expire == t + timedelta_days(days)
        to_encode == [NoToken EXCEPT !.sub = str(user_id), !.exp = expire,
                                     !.jti = jti_, !.typ = "refresh"]
    IN  [token |-> jwt_encode(to_encode), jti |-> jti_, expire |-> expire]

\* jose.jwt.decode: signature first, then exp against the clock in whole
\* seconds; a token is expired once exp < now
decode_token(token, t) ==
    IF token.sig # "valid" THEN [ok |-> FALSE, error |-> "JWTError", data |-> NoToken]
    ELSE IF token.exp < t \div TicksPerSec
         THEN [ok |-> FALSE, error |-> "ExpiredSignatureError", data |-> NoToken]
         ELSE [ok |-> TRUE, error |-> "none", data |-> token]

(* ----------------------- app/core/rate_limit.py ----------------------- *)
\* A bucket's refill_rate capacity / float(window) is kept as the pair
\* <<capacity, window>>; its tokens are counted in units of
\* 1 / (window * TicksPerSec) of a token, in which every refill is whole.
Unit(rate) == rate[2] * TicksPerSec
RateEq(r1, r2) == r1[1] * r2[2] = r2[1] * r1[2]
Min(a, b) == IF a <= b THEN a ELSE b

TokenBucket(capacity, refill_rate, t) ==
    [capacity |-> capacity, tokens |-> capacity * Unit(refill_rate),
     refill_rate |-> refill_rate, last_refill |-> t]

\* a faulty variant of allow, to test that C4 notices: the last token is
\* never handed out
allow_strict(self, cost, t) ==
    LET elapsed == t - self.last_refill
        refill == elapsed * self.refill_rate[1]
        filled == IF refill > 0
                  THEN [self EXCEPT !.tokens = Min(self.capacity * Unit(self.refill_rate),
                                                   self.tokens + refill),
                                    !.last_refill = t]
                  ELSE self
        price == cost * Unit(self.refill_rate)
    IN  IF filled.tokens > price
        THEN [ok |-> TRUE, bucket |-> [filled EXCEPT !.tokens = filled.tokens - price]]
        ELSE [ok |-> FALSE, bucket |-> filled]

\* a faulty variant of allow, to test that C20 notices: last_refill stays
\* where it was, so that the next call credits the same time again
allow_recrediting(self, cost, t) ==
    LET elapsed == t - self.last_refill
        refill == elapsed * self.refill_rate[1]
        filled == IF refill > 0
                  THEN [self EXCEPT !.tokens = Min(self.capacity * Unit(self.refill_rate),
                                                   self.tokens + refill)]
                  ELSE self
        price == cost * Unit(self.refill_rate)
    IN  IF filled.tokens >= price
        THEN [ok |-> TRUE, bucket |-> [filled EXCEPT !.tokens = filled.tokens - price]]
        ELSE [ok |-> FALSE, bucket |-> filled]

\* a faulty variant of allow, to test that C19 notices: a refused call is
\* charged what the bucket still holds
allow_charging_refusals(self, cost, t) ==
    LET elapsed == t - self.last_refill
        refill == elapsed * self.refill_rate[1]
        filled == IF refill > 0
                  THEN [self EXCEPT !.tokens = Min(self.capacity * Unit(self.refill_rate),
                                                   self.tokens + refill),
                                    !.last_refill = t]
                  ELSE self
        price == cost * Unit(self.refill_rate)
    IN  IF filled.tokens >= price
        THEN [ok |-> TRUE, bucket |-> [filled EXCEPT !.tokens = filled.tokens - price]]
        ELSE [ok |-> FALSE, bucket |-> [filled EXCEPT !.tokens = 0]]

\* TokenBucket.allow: the verdict and the bucket after the call
allow(self, cost, t) ==
    LET elapsed == t - self.last_refill
        refill == elapsed * self.refill_rate[1]
        filled == IF refill > 0
                  THEN [self EXCEPT !.tokens = Min(self.capacity * Unit(self.refill_rate),
                                                   self.tokens + refill),
                                    !.last_refill = t]
                  ELSE self
        price == cost * Unit(self.refill_rate)
    IN  IF filled.tokens >= price
        THEN [ok |-> TRUE, bucket |-> [filled EXCEPT !.tokens = filled.tokens - price]]
        ELSE [ok |-> FALSE, bucket |-> filled]

\* a faulty variant of get_bucket, to test that C18 notices: a bucket of the
\* same capacity is kept whatever its rate
get_bucket_ignoring_rate(bs, key, capacity, window, t) ==
    LET rate == <<capacity, window>>
    IN  IF key \notin DOMAIN bs
           \/ bs[key].capacity # capacity
        THEN LET bucket == TokenBucket(capacity, rate, t)
             IN  [bucket |-> bucket, buckets |-> (key :> bucket) @@ bs]
        ELSE [bucket |-> bs[key], buckets |-> bs]

\* InMemoryStore.get_bucket: the bucket and the registry after the call
get_bucket(bs, key, capacity, window, t) ==
    LET rate == <<capacity, window>>
    IN  IF key \notin DOMAIN bs
           \/ bs[key].capacity # capacity
           \/ ~RateEq(bs[key].refill_rate, rate)
        THEN LET bucket == TokenBucket(capacity, rate, t)
             IN  [bucket |-> bucket, buckets |-> (key :> bucket) @@ bs]
        ELSE [bucket |-> bs[key], buckets |-> bs]

\* a request as the limiter sees it: request.state.user_id (0 when unset), the
\* x-forwarded-for header split at its commas (<<>> when absent) and the
\* peer address ("none" when request.client is None)
ClientSuffix(uid, xff, peer) ==
    LET ip == IF Len(xff) > 0 THEN xff[1]
              ELSE IF peer # "none" THEN peer ELSE "unknown"
    IN  IF uid # 0 THEN str(uid) ELSE ip

\* a faulty variant of rate_limit, to test that C8 notices: the verdict of
\* allow is dropped
rate_limit_unenforced(bs, bucket_id, limit, window, uid, client, t) ==
    LET key == <<bucket_id, ClientSuffix(uid, client.xff, client.peer)>>
        got == get_bucket(bs, key, limit, window, t)
        res == allow(got.bucket, 1, t)
    IN  [ok |-> TRUE, buckets |-> (key :> res.bucket) @@ got.buckets]

\* rate_limit(bucket_id, limit, window)'s dependency: admitted or 429, and
\* the registry after the call
rate_limit(bs, bucket_id, limit, window, uid, client, t) ==
    LET key == <<bucket_id, ClientSuffix(uid, client.xff, client.peer)>>
        got == get_bucket(bs, key, limit, window, t)
        res == allow(got.bucket, 1, t)
    IN  [ok |-> res.ok, buckets |-> (key :> res.bucket) @@ got.buckets]

(* ------------------------------- state -------------------------------- *)
VARIABLES
    now,        \* the clock, in ticks (utcnow and time.monotonic advance together)
    events,     \* how often the environment has acted (clock, identity store)
    users,      \* the users table: id -> [exists, is_active]
    store,      \* the refresh_tokens table: a set of rows
    buckets,    \* rate_limit.store.buckets: key -> bucket
    inflight,   \* the requests suspended at an await
    nreq,       \* requests received so far
    issued,     \* the tokens handed out in responses
    last,       \* the response sent last
    calls       \* the verdicts of the allow() calls made on the bucket under test

vars == <<now, events, users, store, buckets, inflight, nreq, issued, last, calls>>

NoRow == [id |-> 0, user_id |-> 0, jti |-> "none", expires_at |-> 0, revoked |-> FALSE]

\* A request suspended in a handler: the payload and the handler's locals.
\* state_user_id is request.state.user_id, 0 while it is unset.
\* Three fields are kept for the record only: addr (who sent it), error (the
\* exception decode_token raised) and was_revoked (whether the row of the
\* presented jti was already revoked when the request arrived).
NoRequest == [id |-> 0, op |-> "none", pc |-> "none", addr |-> "none",
              email |-> "none", password |-> "none", token |-> NoToken,
              data |-> NoToken, user_id |-> 0, access_token |-> NoToken,
              refresh_token |-> NoToken, jti |-> "none", exp |-> 0, rt |-> NoRow,
              state_user_id |-> 0, error |-> "none", was_revoked |-> FALSE]

\* a response: what was asked (op, addr, email, token), where the handler
\* stopped (stage), what it answered and what request.state.user_id was when
\* it answered; kept for the record: the answer to
\* the request before when that one asked the same (previous)
NoAnswer == [status |-> 0, detail |-> "none"]

NoResponse ==
    [op |-> "none", addr |-> "none", stage |-> "none", status |-> 0, detail |-> "none",
     email |-> "none", token |-> NoToken, access_token |-> NoToken,
     refresh_token |-> NoToken, error |-> "none", was_revoked |-> FALSE,
     state_user_id |-> 0, previous |-> NoAnswer]

Response(req, status, detail, access_token, refresh_token) ==
    [op |-> req.op, addr |-> req.addr, stage |-> req.pc, status |-> status,
     detail |-> detail, email |-> req.email, token |-> req.token,
     access_token |-> access_token, refresh_token |-> refresh_token,
     error |-> req.error, was_revoked |-> req.was_revoked,
     state_user_id |-> req.state_user_id,
     previous |-> IF last.op = req.op /\ last.addr = req.addr /\ last.email = req.email
                     /\ last.token = req.token
                  THEN [status |-> last.status, detail |-> last.detail]
                  ELSE NoAnswer]

HTTPException(req, status, detail) == Response(req, status, detail, NoToken, NoToken)

\* the clients: one behind a proxy that forwards for it, one connected directly
Proxied == [xff |-> <<"a2", "a1">>, peer |-> "a1"]
Direct == [xff |-> <<>>, peer |-> "a1"]

\* what a client can put in a login payload: the right pair, a wrong password,
\* an email nobody registered
Credentials == {<<EmailOf(1), PasswordOf(1)>>, <<EmailOf(1), PasswordOf(0)>>,
                <<EmailOf(0), PasswordOf(1)>>}

\* what a client can put in a refresh or logout payload: a token it was handed,
\* a refresh token with the signature broken, or junk
Presentable ==
    issued \cup {[t EXCEPT !.sig = "forged"] : t \in {x \in issued : x.typ = "refresh"}}
           \cup {[NoToken EXCEPT !.sig = "malformed"]}

Init ==
    /\ now = 0
    /\ events = 0
    /\ users = [u \in UserIds |-> [exists |-> TRUE, is_active |-> TRUE]]
    /\ store = {}
    /\ buckets = <<>>
    /\ inflight = {}
    /\ nreq = 0
    /\ issued = {}
    /\ last = NoResponse
    /\ calls = <<>>

(* ------------------------- the stores' queries ------------------------ *)
\* select(User).where(User.email == email) ... scalar_one_or_none(): the id, 0 for None
select_user_by_email(email) ==
    IF \E u \in UserIds : users[u].exists /\ EmailOf(u) = email
    THEN CHOOSE u \in UserIds : users[u].exists /\ EmailOf(u) = email
    ELSE 0

\* select(User).where(User.id == id) ... scalar_one_or_none()
select_user_by_id(id) == IF id \in UserIds /\ users[id].exists THEN id ELSE 0

\* select(RefreshToken).where(RefreshToken.jti == jti) ... scalar_one_or_none()
select_token(jti) ==
    IF \E r \in store : r.jti = jti THEN CHOOSE r \in store : r.jti = jti ELSE NoRow

\* refresh_tokens.jti is unique: the INSERT of a second row with the jti fails
insert(row) ==
    IF \E r \in store : r.jti = row.jti
    THEN [ok |-> FALSE, store |-> store]
    ELSE [ok |-> TRUE, store |-> store \cup {[row EXCEPT !.id = Cardinality(store) + 1]}]

\* a faulty variant of update_revoked, to test that C16 notices: the row is
\* deleted instead of marked
update_revoked_by_delete(rt) == {r \in store : r.id # rt.id}

\* the UPDATE a commit flushes for a row whose revoked attribute was set
update_revoked(rt) ==
    {IF r.id = rt.id THEN [r EXCEPT !.revoked = rt.revoked] ELSE r : r \in store}

(* -------------------- the dependencies of a route --------------------- *)
\* the router's "api" limit, then the route's own; the second is not reached
\* when the first answers 429.  request.state.user_id is not set when they run.
Limits(scope, client) ==
    LET api == rate_limit(buckets, "api", RATE_LIMIT_DEFAULT_LIMIT,
                          RATE_LIMIT_DEFAULT_WINDOW, 0, client, now)
        own == rate_limit(api.buckets, scope, RATE_LIMIT_LOGIN_LIMIT,
                          RATE_LIMIT_LOGIN_WINDOW, 0, client, now)
    IN  IF api.ok THEN own ELSE api

Arrive(maxreq, maxflight) ==
    /\ nreq < maxreq
    /\ Cardinality(inflight) < maxflight
    /\ nreq' = nreq + 1

Respond(resp) == last' = resp
Silent == UNCHANGED last

Suspend(req, next) == inflight' = (inflight \ {req}) \cup {next}
Finish(req) == inflight' = inflight \ {req}

(* ------------------------------- login -------------------------------- *)
\* what uuid.uuid4() can yield: a value in use (a collision) or a fresh one;
\* fresh values are interchangeable, the first of them stands for all
uuid4_values ==
    LET used == {r.jti : r \in store}
                  \cup {q.jti : q \in {r \in inflight : r.op = "login" /\ r.pc = "commit"}}
    IN  {JtiOrder[i] : i \in {k \in DOMAIN JtiOrder : \A m \in 1..(k - 1) : JtiOrder[m] \in used}}

\* auth.py 31: the credentials are refused
bad_credentials(user, password) ==
    user = 0 \/ ~verify_password(password, get_password_hash(PasswordOf(user)))

\* a faulty variant of LoginBegin, to test that C15 notices: the login limit
\* suspends between reading the bucket and spending the token
LoginBegin_suspended_allow(client, email, password, maxreq, maxflight) ==
    LET key == <<"login", ClientSuffix(0, client.xff, client.peer)>>
        got == get_bucket(buckets, key, RATE_LIMIT_LOGIN_LIMIT, RATE_LIMIT_LOGIN_WINDOW, now)
        req == [NoRequest EXCEPT !.id = nreq + 1, !.op = "login", !.pc = "rate_limit",
                                 !.addr = key[2], !.email = email, !.password = password,
                                 !.exp = got.bucket.tokens]
    IN  \/ /\ Arrive(maxreq, maxflight)
           /\ buckets' = got.buckets
           /\ inflight' = inflight \cup {req}
           /\ Silent
           /\ UNCHANGED <<now, events, users, store, issued, calls>>
        \/ \E r \in inflight :
              /\ r.op = "login" /\ r.pc = "rate_limit" /\ r.addr = key[2]
              /\ r.email = email /\ r.password = password
              /\ IF r.exp >= Unit(buckets[key].refill_rate)
                 THEN /\ buckets' = [buckets EXCEPT ![key].tokens =
                                         r.exp - Unit(buckets[key].refill_rate)]
                      /\ Suspend(r, [r EXCEPT !.pc = "select_user", !.exp = 0])
                      /\ Silent
                 ELSE /\ Respond(HTTPException(r, 429, "Rate limit exceeded"))
                      /\ Finish(r)
                      /\ UNCHANGED buckets
              /\ UNCHANGED <<now, events, users, store, nreq, issued, calls>>

\* auth.py 27-29: the limits; then the query for the user is sent
LoginBegin(client, email, password, maxreq, maxflight) ==
    /\ Arrive(maxreq, maxflight)
    /\ LET lim == Limits("login", client)
           req == [NoRequest EXCEPT !.id = nreq + 1, !.op = "login", !.pc = "rate_limit",
                                    !.addr = ClientSuffix(0, client.xff, client.peer),
                                    !.email = email, !.password = password]
       IN  /\ buckets' = lim.buckets
           /\ IF lim.ok
              THEN /\ inflight' = inflight \cup {[req EXCEPT !.pc = "select_user"]}
                   /\ Silent
              ELSE /\ Respond(HTTPException(req, 429, "Rate limit exceeded"))
                   /\ UNCHANGED inflight
    /\ UNCHANGED <<now, events, users, store, issued, calls>>

\* auth.py 30-36: the user row arrives; the tokens are made and the row is added
LoginSelectUser(req, uuid4) ==
    /\ req \in inflight /\ req.op = "login" /\ req.pc = "select_user"
    /\ LET user == select_user_by_email(req.email)
       IN  IF bad_credentials(user, req.password)
           THEN /\ Respond(HTTPException(req, 401, "Invalid credentials"))
                /\ Finish(req)
           ELSE LET access_token == create_access_token(str(user), RoleOf(user), now)
                    made == create_refresh_token(user, "none", -1, uuid4, now)
                IN  /\ Suspend(req, [req EXCEPT !.pc = "commit", !.user_id = user,
                                                !.access_token = access_token,
                                                !.refresh_token = made.token,
                                                !.jti = made.jti, !.exp = made.expire])
                    /\ Silent
    /\ UNCHANGED <<now, events, users, store, buckets, nreq, issued, calls>>

\* a faulty variant of login_row, to test that C7 notices: the expiry is
\* left unset
login_row_without_expiry(req) ==
    [NoRow EXCEPT !.user_id = req.user_id, !.jti = req.jti, !.revoked = FALSE]

\* auth.py 35: the row login adds to the session
login_row(req) ==
    [NoRow EXCEPT !.user_id = req.user_id, !.jti = req.jti,
                  !.expires_at = req.exp, !.revoked = FALSE]

\* a faulty variant of LoginCommit, to test that C5 notices: a login ends the
\* user's other sessions
LoginCommit_single_session(req) ==
    /\ req \in inflight /\ req.op = "login" /\ req.pc = "commit"
    /\ LET done == insert(login_row(req))
       IN  /\ store' = {IF r.user_id = req.user_id /\ r.jti # req.jti
                        THEN [r EXCEPT !.revoked = TRUE] ELSE r : r \in done.store}
           /\ IF done.ok
              THEN /\ Respond(Response(req, 200, "OK", req.access_token, req.refresh_token))
                   /\ issued' = issued \cup {req.access_token, req.refresh_token}
              ELSE /\ Respond(HTTPException(req, 500, "Internal Server Error"))
                   /\ UNCHANGED issued
    /\ Finish(req)
    /\ UNCHANGED <<now, events, users, buckets, nreq, calls>>

\* auth.py 36-37: the commit writes the row and the pair is returned; a
\* commit that fails raises out of the handler
LoginCommit(req) ==
    /\ req \in inflight /\ req.op = "login" /\ req.pc = "commit"
    /\ LET done == insert(login_row(req))
       IN  /\ store' = done.store
           /\ IF done.ok
              THEN /\ Respond(Response(req, 200, "OK", req.access_token, req.refresh_token))
                   /\ issued' = issued \cup {req.access_token, req.refresh_token}
              ELSE /\ Respond(HTTPException(req, 500, "Internal Server Error"))
                   /\ UNCHANGED issued
    /\ Finish(req)
    /\ UNCHANGED <<now, events, users, buckets, nreq, calls>>

(* ------------------------------ refresh ------------------------------- *)
\* auth.py 53, 55, 59: the three refusals after the claims were accepted, each
\* preceded by a faulty variant (to test that C1, C2 and C9 notice)
row_revoked_flag_ignored(rt) == rt = NoRow
row_revoked(rt) == rt = NoRow \/ rt.revoked
row_expired_never(rt, t) == FALSE
row_expired(rt, t) == t >= rt.expires_at
user_unusable_only_if_missing(user) == user = 0
user_unusable(user) == user = 0 \/ ~users[user].is_active

\* auth.py 39-51: the limits, decode, the checks on the claims; then the query
\* for the row is sent
RefreshBegin(client, token, maxreq, maxflight) ==
    /\ Arrive(maxreq, maxflight)
    /\ LET lim == Limits("refresh", client)
           dec == decode_token(token, now)
           data == dec.data
           req == [NoRequest EXCEPT !.id = nreq + 1, !.op = "refresh",
                                    !.pc = "rate_limit", !.token = token,
                                    !.addr = ClientSuffix(0, client.xff, client.peer),
                                    !.was_revoked = select_token(token.jti).revoked]
           fail(detail) ==
               /\ Respond(HTTPException([req EXCEPT !.pc = "decode", !.error = dec.error],
                                        401, detail))
               /\ UNCHANGED inflight
       IN  /\ buckets' = lim.buckets
           /\ IF ~lim.ok
              THEN /\ Respond(HTTPException(req, 429, "Rate limit exceeded"))
                   /\ UNCHANGED inflight
              ELSE IF ~dec.ok THEN fail("Invalid refresh token")
              ELSE IF data.typ # "refresh" THEN fail("Invalid token type")
              ELSE IF data.jti = "none" \/ data.sub = "none" THEN fail("Invalid token payload")
              ELSE /\ inflight' = inflight \cup
                        {[req EXCEPT !.pc = "select_token", !.data = data, !.jti = data.jti]}
                   /\ Silent
    /\ UNCHANGED <<now, events, users, store, issued, calls>>

\* auth.py 52-57: the row arrives; revoked and expiry are checked, the query
\* for the user is sent
RefreshSelectToken(req) ==
    /\ req \in inflight /\ req.op = "refresh" /\ req.pc = "select_token"
    /\ LET rt == select_token(req.jti)
           fail(detail) == Respond(HTTPException(req, 401, detail)) /\ Finish(req)
       IN  IF row_revoked(rt) THEN fail("Token revoked")
           ELSE IF row_expired(rt, now) THEN fail("Token expired")
           ELSE Suspend(req, [req EXCEPT !.pc = "select_user", !.rt = rt]) /\ Silent
    /\ UNCHANGED <<now, events, users, store, buckets, nreq, issued, calls>>

\* a faulty variant of RefreshSelectUser, to test that C6 notices: the
\* refresh token is used up
RefreshSelectUser_rotating(req) ==
    /\ req \in inflight /\ req.op = "refresh" /\ req.pc = "select_user"
    /\ LET user == select_user_by_id(int(req.data.sub))
       IN  IF user_unusable(user)
           THEN /\ Respond(HTTPException(req, 401, "User inactive or not found"))
                /\ UNCHANGED <<issued, store>>
           ELSE LET token == create_access_token(str(user), RoleOf(user), now)
                IN  /\ Respond(Response(req, 200, "OK", token, NoToken))
                    /\ issued' = issued \cup {token}
                    /\ store' = update_revoked([req.rt EXCEPT !.revoked = TRUE])
    /\ Finish(req)
    /\ UNCHANGED <<now, events, users, buckets, nreq, calls>>

\* auth.py 58-62: the user row arrives; the access token is made and returned
RefreshSelectUser(req) ==
    /\ req \in inflight /\ req.op = "refresh" /\ req.pc = "select_user"
    /\ LET user == select_user_by_id(int(req.data.sub))
       IN  IF user_unusable(user)
           THEN /\ Respond(HTTPException(req, 401, "User inactive or not found"))
                /\ UNCHANGED issued
           ELSE LET token == create_access_token(str(user), RoleOf(user), now)
                IN  /\ Respond(Response(req, 200, "OK", token, NoToken))
                    /\ issued' = issued \cup {token}
    /\ Finish(req)
    /\ UNCHANGED <<now, events, users, store, buckets, nreq, calls>>

(* ------------------------------- logout ------------------------------- *)
\* auth.py 77: the one refusal after the claims were accepted, preceded by
\* faulty variants (to test that C10 and C11 notice)
row_unknown_never(rt) == FALSE
row_unknown_or_revoked(rt) == rt = NoRow \/ rt.revoked
row_unknown(rt) == rt = NoRow

\* auth.py 64-75: the limits, decode, the checks on the claims; then the query
\* for the row is sent
LogoutBegin(client, token, maxreq, maxflight) ==
    /\ Arrive(maxreq, maxflight)
    /\ LET lim == Limits("logout", client)
           dec == decode_token(token, now)
           data == dec.data
           req == [NoRequest EXCEPT !.id = nreq + 1, !.op = "logout",
                                    !.pc = "rate_limit", !.token = token,
                                    !.addr = ClientSuffix(0, client.xff, client.peer),
                                    !.was_revoked = select_token(token.jti).revoked]
           fail(detail) ==
               /\ Respond(HTTPException([req EXCEPT !.pc = "decode", !.error = dec.error],
                                        401, detail))
               /\ UNCHANGED inflight
       IN  /\ buckets' = lim.buckets
           /\ IF ~lim.ok
              THEN /\ Respond(HTTPException(req, 429, "Rate limit exceeded"))
                   /\ UNCHANGED inflight
              ELSE IF ~dec.ok THEN fail("Invalid refresh token")
              ELSE IF data.typ # "refresh" THEN fail("Invalid token type")
              ELSE IF data.jti = "none" THEN fail("Invalid token payload")
              ELSE /\ inflight' = inflight \cup
                        {[req EXCEPT !.pc = "select_token", !.data = data, !.jti = data.jti]}
                   /\ Silent
    /\ UNCHANGED <<now, events, users, store, issued, calls>>

\* auth.py 76-80: the row arrives; it is marked revoked and the commit is sent
LogoutSelectToken(req) ==
    /\ req \in inflight /\ req.op = "logout" /\ req.pc = "select_token"
    /\ LET rt == select_token(req.jti)
       IN  IF row_unknown(rt)
           THEN Respond(HTTPException(req, 401, "Unknown token")) /\ Finish(req)
           ELSE /\ Suspend(req, [req EXCEPT !.pc = "commit",
                                            !.rt = [rt EXCEPT !.revoked = TRUE]])
                /\ Silent
    /\ UNCHANGED <<now, events, users, store, buckets, nreq, issued, calls>>

\* auth.py 80-81: the commit writes the row; the handler answers
LogoutCommit(req) ==
    /\ req \in inflight /\ req.op = "logout" /\ req.pc = "commit"
    /\ store' = update_revoked(req.rt)
    /\ Respond(Response(req, 200, "Logged out", NoToken, NoToken))
    /\ Finish(req)
    /\ UNCHANGED <<now, events, users, buckets, nreq, issued, calls>>

(* ---------------------- GET /users/me (deps.py) ----------------------- *)
\* deps.py 19: the claims are not those of an access token, preceded by a
\* faulty variant (to test that C12 notices)
not_access_unchecked(payload) == FALSE
not_access(payload) == payload.typ # "access"

\* router.py 7, deps.py 12-24: the router's limit, keyed by what
\* request.state.user_id holds when it runs; then get_current_user up to its
\* query.  NoToken as the token stands for a request without credentials.
MeBegin(client, token, maxreq, maxflight) ==
    /\ Arrive(maxreq, maxflight)
    /\ LET req == [NoRequest EXCEPT !.id = nreq + 1, !.op = "me", !.pc = "rate_limit",
                                    !.token = token,
                                    !.addr = ClientSuffix(0, client.xff, client.peer)]
           lim == rate_limit(buckets, "api", RATE_LIMIT_DEFAULT_LIMIT,
                             RATE_LIMIT_DEFAULT_WINDOW, req.state_user_id, client, now)
           dec == decode_token(token, now)
           payload == dec.data
           fail(detail) ==
               /\ Respond(HTTPException([req EXCEPT !.pc = "decode", !.error = dec.error],
                                        401, detail))
               /\ UNCHANGED inflight
       IN  /\ buckets' = lim.buckets
           /\ IF ~lim.ok
              THEN /\ Respond(HTTPException(req, 429, "Rate limit exceeded"))
                   /\ UNCHANGED inflight
              ELSE IF token = NoToken
              THEN /\ Respond(HTTPException([req EXCEPT !.pc = "decode"],
                                            401, "Not authenticated"))
                   /\ UNCHANGED inflight
              ELSE IF ~dec.ok THEN fail("Invalid token")
              ELSE IF not_access(payload) THEN fail("Invalid token type")
              ELSE IF payload.sub = "none" THEN fail("Invalid token payload")
              ELSE /\ inflight' = inflight \cup
                        {[req EXCEPT !.pc = "select_user", !.data = payload]}
                   /\ Silent
    /\ UNCHANGED <<now, events, users, store, issued, calls>>

\* deps.py 25-29, users.py 9-10: the user row arrives; request.state.user_id
\* is set and the user is returned
MeSelectUser(req) ==
    /\ req \in inflight /\ req.op = "me" /\ req.pc = "select_user"
    /\ LET user == select_user_by_id(int(req.data.sub))
       IN  IF user = 0 \/ ~users[user].is_active
           THEN Respond(HTTPException(req, 401, "User inactive or not found"))
           ELSE Respond(Response([req EXCEPT !.state_user_id = user], 200, "OK",
                                 NoToken, NoToken))
    /\ Finish(req)
    /\ UNCHANGED <<now, events, users, store, buckets, nreq, issued, calls>>

(* --------------------------- the environment -------------------------- *)
\* the clock moves: by a tick, or by a tick more than the lifetime of a
\* refresh token
Steps == {1, timedelta_days(REFRESH_TOKEN_EXPIRES_DAYS) + 1}

Advance(dt) ==
    /\ events < MaxEvents
    /\ events' = events + 1
    /\ now' = now + dt
    /\ UNCHANGED <<users, store, buckets, inflight, nreq, issued, last, calls>>

\* the identity store's owner switches a user off or on, or removes the row
SetActive(u, b) ==
    /\ events < MaxEvents
    /\ events' = events + 1
    /\ users[u].exists /\ users[u].is_active # b
    /\ users' = [users EXCEPT ![u].is_active = b]
    /\ UNCHANGED <<now, store, buckets, inflight, nreq, issued, last, calls>>

DeleteUser(u) ==
    /\ events < MaxEvents
    /\ events' = events + 1
    /\ users[u].exists
    /\ users' = [users EXCEPT ![u] = [exists |-> FALSE, is_active |-> FALSE]]
    /\ UNCHANGED <<now, store, buckets, inflight, nreq, issued, last, calls>>

(* --------------------------- specifications --------------------------- *)
\* One client, one request at a time; the clock and the identity store move
\* between the steps of a handler.
Next ==
    \/ \E cr \in Credentials : LoginBegin(Proxied, cr[1], cr[2], MaxRequests, 1)
    \/ \E t \in Presentable : RefreshBegin(Proxied, t, MaxRequests, 1)
    \/ \E t \in Presentable : LogoutBegin(Proxied, t, MaxRequests, 1)
    \/ \E r \in inflight, j \in uuid4_values : LoginSelectUser(r, j)
    \/ \E r \in inflight : LoginCommit(r)
    \/ \E r \in inflight : RefreshSelectToken(r)
    \/ \E r \in inflight : RefreshSelectUser(r)
    \/ \E r \in inflight : LogoutSelectToken(r)
    \/ \E r \in inflight : LogoutCommit(r)
    \/ \E dt \in Steps : Advance(dt)
    \/ \E u \in UserIds, b \in BOOLEAN : SetActive(u, b)
    \/ \E u \in UserIds : DeleteUser(u)

Spec == Init /\ [][Next]_vars

\* a refresh token signed with the application's key whose jti has no row:
\* create_refresh_token called with a jti of the caller's, nothing inserted
Orphan == create_refresh_token(1, "j0", -1, "j0", 0).token

\* Two requests in flight at a time, their steps interleaved in every order;
\* the environment stands still.
NextRace ==
    \/ \E cr \in Credentials : LoginBegin(Proxied, cr[1], cr[2], MaxRequests, 2)
    \/ \E t \in Presentable \cup {Orphan} : RefreshBegin(Proxied, t, MaxRequests, 2)
    \/ \E t \in Presentable \cup {Orphan} : LogoutBegin(Proxied, t, MaxRequests, 2)
    \/ \E c \in {Proxied, Direct}, t \in Presentable \cup {Orphan, NoToken} :
          MeBegin(c, t, MaxRequests, 2)
    \/ \E r \in inflight : MeSelectUser(r)
    \/ \E r \in inflight, j \in uuid4_values : LoginSelectUser(r, j)
    \/ \E r \in inflight : LoginCommit(r)
    \/ \E r \in inflight : RefreshSelectToken(r)
    \/ \E r \in inflight : RefreshSelectUser(r)
    \/ \E r \in inflight : LogoutSelectToken(r)
    \/ \E r \in inflight : LogoutCommit(r)

SpecRace == Init /\ [][NextRace]_vars

\* A burst: no time passes while one client sends request after request, the
\* refresh tokens it was handed among them, and a second client tries passwords.
Genuine == {t \in issued : t.typ = "refresh"}

NextBurst ==
    \/ \E cr \in Credentials : LoginBegin(Proxied, cr[1], cr[2], MaxBurst, 1)
    \/ LoginBegin(Direct, EmailOf(1), PasswordOf(0), MaxBurst, 1)
    \/ \E t \in Genuine : RefreshBegin(Proxied, t, MaxBurst, 1)
    \/ \E t \in Genuine : LogoutBegin(Proxied, t, MaxBurst, 1)
    \/ \E r \in inflight, j \in uuid4_values : LoginSelectUser(r, j)
    \/ \E r \in inflight : LoginCommit(r)
    \/ \E r \in inflight : RefreshSelectToken(r)
    \/ \E r \in inflight : RefreshSelectUser(r)
    \/ \E r \in inflight : LogoutSelectToken(r)
    \/ \E r \in inflight : LogoutCommit(r)

SpecBurst == Init /\ [][NextBurst]_vars

\* A crowd: two clients send logins with a wrong password, as many in flight
\* at a time as are sent, while no time passes.
NextCrowd ==
    \/ \E c \in {Proxied, Direct} :
          LoginBegin(c, EmailOf(1), PasswordOf(0), MaxBurst, MaxBurst)
    \/ \E r \in inflight, j \in uuid4_values : LoginSelectUser(r, j)

SpecCrowd == Init /\ [][NextCrowd]_vars

\* an entry of the log of calls: when the call was made, the capacity and
\* window asked of get_bucket, the bucket it returned, the cost asked of
\* allow, its verdict, and the bucket's tokens and last_refill after it
Call(capacity, window, got, cost, ok, after) ==
    [at |-> now, ok |-> ok, tokens |-> after.tokens,
     capacity |-> capacity, window |-> window, got |-> got,
     cost |-> cost, last_refill |-> after.last_refill]

\* The limiter on its own: one key of the login limit, called at moments of a
\* clock that moves by half a refill interval or a whole one.
RateLimitCall(bucket_id, limit, window, client) ==
    /\ Len(calls) < MaxCalls
    /\ LET res == rate_limit(buckets, bucket_id, limit, window, 0, client, now)
           key == <<bucket_id, ClientSuffix(0, client.xff, client.peer)>>
           got == get_bucket(buckets, key, limit, window, now)
       IN  /\ buckets' = res.buckets
           /\ calls' = Append(calls, Call(limit, window, got.bucket, 1, res.ok,
                                            res.buckets[key]))
    /\ UNCHANGED <<now, events, users, store, inflight, nreq, issued, last>>

RefillInterval == Seconds(RATE_LIMIT_LOGIN_WINDOW) \div RATE_LIMIT_LOGIN_LIMIT
Waits == {RefillInterval \div 2, RefillInterval}

NextBucket ==
    \/ RateLimitCall("login", RATE_LIMIT_LOGIN_LIMIT, RATE_LIMIT_LOGIN_WINDOW, Direct)
    \/ \E dt \in Waits : Advance(dt)

SpecBucket == Init /\ [][NextBucket]_vars

\* The registry on its own: store.get_bucket(key, capacity, window).allow(cost)
\* on one key, with configurations that differ in capacity only up to the
\* rate, in rate only, or in both, and with costs of one token and more.
BucketCall(key, capacity, window, cost) ==
    /\ Len(calls) < MaxProbes
    /\ LET got == get_bucket(buckets, key, capacity, window, now)
           res == allow(got.bucket, cost, now)
       IN  /\ buckets' = (key :> res.bucket) @@ got.buckets
           /\ calls' = Append(calls, Call(capacity, window, got.bucket, cost, res.ok,
                                            res.bucket))
    /\ UNCHANGED <<now, events, users, store, inflight, nreq, issued, last>>

Configs == {<<RATE_LIMIT_LOGIN_LIMIT, RATE_LIMIT_LOGIN_WINDOW>>,
            <<2 * RATE_LIMIT_LOGIN_LIMIT, 2 * RATE_LIMIT_LOGIN_WINDOW>>,
            <<RATE_LIMIT_LOGIN_LIMIT, 2 * RATE_LIMIT_LOGIN_WINDOW>>}
Costs == {1, 3}

NextConfig ==
    \/ \E cf \in Configs, cost \in Costs :
          BucketCall(<<"login", Direct.peer>>, cf[1], cf[2], cost)
    \/ Advance(RefillInterval)

SpecConfig == Init /\ [][NextConfig]_vars

(* ------------------------------ the claims ---------------------------- *)
\* the failure kinds of the specification, read off a response's status and detail
Kind(resp) ==
    CASE resp.status = 200 -> "Success"
      [] resp.status = 429 -> "RateLimited"
      [] resp.status = 401 /\ resp.detail = "Invalid credentials" -> "AuthenticationFailed"
      [] resp.status = 401 /\ resp.detail \in {"Invalid refresh token", "Invalid token type",
                                               "Invalid token payload", "Invalid token"}
            -> "InvalidToken"
      [] resp.status = 401 /\ resp.detail = "Not authenticated" -> "NotAuthenticated"
      [] resp.status = 401 /\ resp.detail = "Token revoked" -> "TokenRevoked"
      [] resp.status = 401 /\ resp.detail = "Token expired" -> "TokenExpired"
      [] resp.status = 401 /\ resp.detail = "User inactive or not found"
            -> "UserInactiveOrMissing"
      [] resp.status = 401 /\ resp.detail = "Unknown token" -> "UnknownToken"
      [] OTHER -> "Unhandled"

IsGenuine(token) == token.sig = "valid" /\ token.typ = "refresh"

\* C1, as claimed: once logout has succeeded for a jti, every later refresh
\* with the refresh token of that jti fails with TokenRevoked and issues no
\* access token, whether or not the token's signed expiry has passed.
C1_RevokedAlwaysTokenRevoked ==
    (last.op = "refresh" /\ last.was_revoked /\ IsGenuine(last.token))
        => Kind(last) = "TokenRevoked" /\ last.access_token = NoToken

\* C1, amended: once logout has succeeded for a jti, no later refresh with a
\* token carrying that jti issues an access token; it fails with TokenRevoked
\* whenever the handler gets as far as the row, and a genuine refresh token is
\* stopped earlier only by the rate limit or because its signed expiry has
\* passed, which decode reports before the row is looked up.
C1_RevokedNeverRefreshes ==
    (last.op = "refresh" /\ last.was_revoked) =>
        /\ last.status # 200
        /\ last.access_token = NoToken
        /\ last.stage \notin {"rate_limit", "decode"} => Kind(last) = "TokenRevoked"
        /\ IsGenuine(last.token) =>
              \/ Kind(last) = "TokenRevoked"
              \/ Kind(last) = "RateLimited"
              \/ last.stage = "decode" /\ last.error = "ExpiredSignatureError"

C1_Witness ==
    last.op = "refresh" /\ last.was_revoked /\ IsGenuine(last.token)
        /\ Kind(last) = "TokenRevoked"

\* the steps of a request r, seen from outside the handlers
Leaves(r) == r \in inflight /\ r \notin inflight'
Continues(r, pc) == \E q \in inflight' : q.id = r.id /\ q.pc = pc
Answered(r) == Leaves(r) /\ \A q \in inflight' : q.id # r.id
AnsweredOnArrival == nreq' # nreq /\ \A q \in inflight' : q.id # nreq'
ClientOf(addr) == IF addr = ClientSuffix(0, Proxied.xff, Proxied.peer) THEN Proxied ELSE Direct

\* a row that refresh accepts at time t; a user that refresh accepts
Usable(rt, t) == rt # NoRow /\ ~rt.revoked /\ t < rt.expires_at
Active(u) == u \in UserIds /\ users[u].exists /\ users[u].is_active

\* C2: refresh returns an access token only if, when it read them, the row of
\* the token's jti existed, was not revoked and had an expires_at after the
\* current time, and the owning user existed and was active; every other
\* way out of the handler issues no access token.
C2_RefreshOnlyIfUsable ==
    [][ /\ \A r \in inflight :
              (r.op = "refresh" /\ r.pc = "select_token" /\ Leaves(r)
                  /\ Continues(r, "select_user"))
                  => Usable(select_token(r.jti), now)
        /\ \A r \in inflight :
              (r.op = "refresh" /\ r.pc = "select_user" /\ Answered(r)
                  /\ (last'.status = 200 \/ last'.access_token # NoToken \/ issued' # issued))
                  => /\ Active(int(r.data.sub))
                     /\ r.rt # NoRow /\ ~r.rt.revoked /\ r.rt.jti = r.token.jti
        /\ \A r \in inflight :
              (r.op = "refresh" /\ r.pc # "select_user" /\ Answered(r))
                  => issued' = issued /\ last'.access_token = NoToken /\ last'.status # 200
        /\ (AnsweredOnArrival /\ last'.op = "refresh")
              => issued' = issued /\ last'.access_token = NoToken /\ last'.status # 200
      ]_vars

C2_Witness ==
    last.op = "refresh" /\ last.status = 200 /\ last.access_token.typ = "access"

\* C3, as claimed: refresh and logout answer a correctly signed refresh token
\* whose signed expiry has passed with TokenExpired, and a malformed or badly
\* signed token with InvalidToken.
C3_ExpiredReportedAsExpired ==
    (last.op \in {"refresh", "logout"} /\ last.stage = "decode") =>
        /\ last.error = "ExpiredSignatureError" => Kind(last) = "TokenExpired"
        /\ last.error = "JWTError" => Kind(last) = "InvalidToken"

\* C4: on a bucket of capacity 5 and window 60, the calls made at the moment
\* of the first are admitted exactly up to the fifth; when at least six were
\* made then, of the calls made 12 seconds later exactly the first is admitted.
C4_FiveThenOnePerInterval ==
    Len(calls) > 0 =>
        LET T0 == calls[1].at
            burst == {i \in DOMAIN calls : calls[i].at = T0}
            after == {i \in DOMAIN calls : calls[i].at = T0 + RefillInterval}
        IN  /\ \A i \in burst : calls[i].ok <=> i <= RATE_LIMIT_LOGIN_LIMIT
            /\ Cardinality(burst) > RATE_LIMIT_LOGIN_LIMIT =>
                  \A i \in after : calls[i].ok <=> (\A j \in after : i <= j)

C4_Witness ==
    /\ Len(calls) = 8
    /\ \A i \in 1..6 : calls[i].at = calls[1].at
    /\ \A i \in 7..8 : calls[i].at = calls[1].at + RefillInterval
    /\ \A i \in 1..5 : calls[i].ok
    /\ ~calls[6].ok /\ calls[7].ok /\ ~calls[8].ok

\* C5: the rows of the table have pairwise different jti; a step of a login
\* leaves every row that was there as it was; a login that succeeds adds one
\* row, not revoked, unexpired, of the user, with the jti of the token it
\* returns and a jti no other row has; and a refresh that finds its row not
\* revoked and unexpired goes on, whatever other rows the user has.
C5_IndependentSessions ==
    /\ [](\A r1, r2 \in store : r1.jti = r2.jti => r1 = r2)
    /\ [][ /\ (\/ \E r \in inflight : r.op = "login" /\ Leaves(r)
               \/ \E q \in inflight' : q.op = "login" /\ q \notin inflight
               \/ AnsweredOnArrival /\ last'.op = "login")
                  => store \subseteq store'
           /\ \A r \in inflight :
                 (r.op = "login" /\ r.pc = "commit" /\ Answered(r) /\ last'.status = 200)
                     => \E row \in store' \ store :
                           /\ store' = store \cup {row}
                           /\ row.jti = last'.refresh_token.jti
                           /\ row.user_id = r.user_id
                           /\ Usable(row, now)
                           /\ \A old \in store : old.jti # row.jti /\ old.id # row.id
           /\ \A r \in inflight :
                 (r.op = "refresh" /\ r.pc = "select_token" /\ Leaves(r)
                     /\ Usable(select_token(r.jti), now))
                     => Continues(r, "select_user")
         ]_vars

C5_Witness ==
    \E r1, r2 \in store :
        /\ r1.jti # r2.jti /\ r1.user_id = r2.user_id
        /\ Usable(r1, now) /\ Usable(r2, now)
        /\ \E t1, t2 \in issued : IsGenuine(t1) /\ IsGenuine(t2)
                                    /\ t1.jti = r1.jti /\ t2.jti = r2.jti
        /\ last.op = "refresh" /\ last.status = 200 /\ last.token.jti = r1.jti

\* C6: no step of a refresh, whatever its outcome, changes the table of
\* refresh tokens; and a refresh that finds its row not revoked and unexpired
\* goes on, however often the token was used before.
C6_RefreshLeavesStore ==
    [][ /\ (\/ \E r \in inflight : r.op = "refresh" /\ Leaves(r)
            \/ \E q \in inflight' : q.op = "refresh" /\ q \notin inflight
            \/ AnsweredOnArrival /\ last'.op = "refresh")
               => store' = store
        /\ \A r \in inflight :
              (r.op = "refresh" /\ r.pc = "select_token" /\ Leaves(r)
                  /\ Usable(select_token(r.jti), now))
                  => /\ Continues(r, "select_user")
                     /\ \A q \in inflight' : q.id = r.id => q.rt = select_token(r.jti)
      ]_vars

\* the same token has been refreshed twice in a row, both times with success,
\* and its row is as login made it
C6_Witness ==
    /\ last.op = "refresh" /\ last.status = 200
    /\ last.previous.status = 200
    /\ \E row \in store : row.jti = last.token.jti /\ ~row.revoked

\* C7, as claimed: after a successful login the table holds a row, not revoked,
\* whose jti, user id and expiry equal the jti, subject and expiry signed into
\* the refresh token returned.
C7_RecordEqualsSignedClaims ==
    (last.op = "login" /\ last.status = 200) =>
        \E row \in store :
            /\ ~row.revoked
            /\ row.jti = last.refresh_token.jti
            /\ str(row.user_id) = last.refresh_token.sub
            /\ row.expires_at = Seconds(last.refresh_token.exp)

\* C7, amended: a successful login adds a row, not revoked, whose jti and user
\* id equal the jti and subject signed into the refresh token it returns and
\* whose expiry, cut to whole seconds, equals the signed expiry (the row keeps
\* the fraction of a second the token drops); a login refused for its
\* credentials adds no row and returns no token.
C7_RecordMatchesTokenToTheSecond ==
    [][ \A r \in inflight :
          (r.op = "login" /\ Answered(r)) =>
            /\ last'.status = 200 =>
                  /\ IsGenuine(last'.refresh_token)
                  /\ \E row \in store' \ store :
                        /\ ~row.revoked
                        /\ row.jti = last'.refresh_token.jti
                        /\ str(row.user_id) = last'.refresh_token.sub
                        /\ row.expires_at \div TicksPerSec = last'.refresh_token.exp
                        /\ row.expires_at - Seconds(last'.refresh_token.exp) \in 0..(TicksPerSec - 1)
            /\ r.pc = "select_user" =>
                  /\ Kind(last') = "AuthenticationFailed"
                  /\ bad_credentials(select_user_by_email(r.email), r.password)
                  /\ store' = store /\ issued' = issued
                  /\ last'.access_token = NoToken /\ last'.refresh_token = NoToken
      ]_vars

\* a login made off the whole second has succeeded: the row's expiry is later
\* than the signed one
C7_Witness ==
    /\ last.op = "login" /\ last.status = 200
    /\ \E row \in store : /\ row.jti = last.refresh_token.jti
                          /\ row.expires_at > Seconds(last.refresh_token.exp)

\* C8: a request for which the limiter's allow returns false is answered 429
\* with no token, and nothing of the operation runs: the request does not
\* enter its handler, no row is added or changed, no token is issued; a
\* request enters its handler only when allow returned true.  With no time
\* elapsed, none of the first five requests is answered 429, and from the
\* sixth on every login on one key is.
C8_RateLimitedStopsRequest ==
    /\ [][ nreq' # nreq =>
             /\ \A q \in inflight' : q.id = nreq' => Limits(q.op, ClientOf(q.addr)).ok
             /\ AnsweredOnArrival =>
                   LET lim == Limits(last'.op, ClientOf(last'.addr))
                   IN  /\ inflight' = inflight /\ store' = store /\ issued' = issued
                       /\ ~lim.ok <=> Kind(last') = "RateLimited"
                       /\ ~lim.ok => /\ last'.access_token = NoToken
                                     /\ last'.refresh_token = NoToken
                                     /\ last'.stage = "rate_limit"
         ]_vars
    /\ [](nreq <= RATE_LIMIT_LOGIN_LIMIT => Kind(last) # "RateLimited")
    /\ []((nreq > RATE_LIMIT_LOGIN_LIMIT
             /\ DOMAIN buckets = {<<"api", last.addr>>, <<"login", last.addr>>})
            => last.op = "login" /\ Kind(last) = "RateLimited")

\* the sixth login of a client whose first login succeeded
C8_Witness ==
    /\ nreq = RATE_LIMIT_LOGIN_LIMIT + 1
    /\ DOMAIN buckets = {<<"api", last.addr>>, <<"login", last.addr>>}
    /\ last.op = "login" /\ Kind(last) = "RateLimited"
    /\ store # {}

\* C9: a refresh that has found its row not revoked and unexpired is answered
\* by the state of the owning user at that moment: UserInactiveOrMissing and
\* no access token when the user is gone or inactive, an access token for the
\* user when it is there and active, whatever it was before.
C9_RefreshFollowsIdentity ==
    [][ \A r \in inflight :
          (r.op = "refresh" /\ r.pc = "select_user" /\ Answered(r)) =>
             IF Active(int(r.data.sub))
             THEN /\ Kind(last') = "Success"
                  /\ last'.access_token.typ = "access"
                  /\ last'.access_token.sig = "valid"
                  /\ last'.access_token.sub = r.data.sub
                  /\ last'.access_token \in issued'
             ELSE /\ Kind(last') = "UserInactiveOrMissing"
                  /\ last'.access_token = NoToken
                  /\ issued' = issued
      ]_vars

\* a token refused while its user was inactive is accepted after the user
\* was switched on again
C9_Witness ==
    /\ last.op = "refresh" /\ last.status = 200
    /\ last.previous = [status |-> 401, detail |-> "User inactive or not found"]

\* C10: a logout that finds the row of its token already revoked goes on to
\* the commit like one that finds it not revoked; its commit leaves the table
\* as it was and it is answered 200.
C10_LogoutIdempotent ==
    [][ \A r \in inflight :
          (r.op = "logout" /\ Leaves(r) /\ select_token(r.jti).revoked) =>
             /\ r.pc = "select_token" => Continues(r, "commit")
             /\ r.pc = "commit" => /\ store' = store
                                   /\ last'.status = 200
                                   /\ last'.detail = "Logged out"
      ]_vars

C10_Witness ==
    /\ last.op = "logout" /\ last.status = 200 /\ last.was_revoked
    /\ last.previous = [status |-> 200, detail |-> "Logged out"]
    /\ \E row \in store : row.jti = last.token.jti /\ row.revoked

\* C11: a logout whose correctly signed refresh token has a jti without a
\* row is answered UnknownToken, a logout whose correctly signed, unexpired
\* token is not of typ "refresh" is answered InvalidToken and never enters
\* the handler's queries; both leave the table as it was.
C11_LogoutUnknownOrWrongType ==
    [][ /\ \A r \in inflight :
              (r.op = "logout" /\ r.pc = "select_token" /\ Leaves(r)
                  /\ select_token(r.jti) = NoRow)
                  => /\ Answered(r)
                     /\ Kind(last') = "UnknownToken"
                     /\ store' = store
        /\ (AnsweredOnArrival /\ last'.op = "logout" /\ last'.token.sig = "valid"
              /\ last'.token.typ # "refresh" /\ last'.stage = "decode"
              /\ last'.error = "none")
              => /\ Kind(last') = "InvalidToken"
                 /\ last'.detail = "Invalid token type"
                 /\ store' = store
        /\ \A q \in inflight' :
              (q.op = "logout" /\ q \notin inflight) => q.token.typ = "refresh"
      ]_vars

\* a signed refresh token without a row was presented to logout while the
\* table held other rows
C11_Witness ==
    /\ last.op = "logout" /\ Kind(last) = "UnknownToken"
    /\ IsGenuine(last.token)
    /\ store # {} /\ \A row \in store : row.jti # last.token.jti

\* the typ each operation expects of the token it is given
ExpectedTyp(op) == IF op = "me" THEN "access" ELSE "refresh"

\* C12: no request enters refresh, logout or get_current_user's queries, and
\* none is answered with success, with a token whose typ is not the one the
\* operation expects; a correctly signed, unexpired token of the other typ is
\* answered InvalidToken on arrival, the table and the issued tokens untouched.
C12_TokenTypesNotConfused ==
    /\ [](last.op \in {"refresh", "logout", "me"} /\ last.status = 200
            => last.token.typ = ExpectedTyp(last.op))
    /\ [](\A r \in inflight :
            r.op \in {"refresh", "logout", "me"} => r.token.typ = ExpectedTyp(r.op))
    /\ [][ (AnsweredOnArrival /\ last'.op \in {"refresh", "logout", "me"}
              /\ last'.token.sig = "valid" /\ last'.error = "none"
              /\ last'.stage = "decode" /\ last'.token.typ # ExpectedTyp(last'.op))
              => /\ Kind(last') = "InvalidToken"
                 /\ last'.detail = "Invalid token type"
                 /\ store' = store /\ issued' = issued
         ]_vars

\* a refresh token that login returned was presented as a bearer credential
C12_Witness ==
    /\ last.op = "me" /\ IsGenuine(last.token) /\ last.token \in issued
    /\ Kind(last) = "InvalidToken" /\ last.detail = "Invalid token type"

\* C13, as claimed: a login whose insert meets a row with the same jti is
\* answered with the distinct error DuplicateToken, raised by code of login
\* that handles the case; the row that was there stays as it was and no
\* refresh token is returned without its row.
C13_DuplicateTokenHandled ==
    /\ (last.op = "login" /\ last.stage = "commit" /\ last.status # 200)
          => /\ Kind(last) = "DuplicateToken"
             /\ last.refresh_token = NoToken /\ last.access_token = NoToken
    /\ (last.op = "login" /\ last.status = 200)
          => \E row \in store : row.jti = last.refresh_token.jti

\* C14, as claimed: a refresh never returns an access token when the
\* revocation of its token's jti is already committed to the table.
C14_NoRefreshAfterRevocation ==
    (last.op = "refresh" /\ last.status = 200)
        => ~select_token(last.token.jti).revoked

\* the login bucket of an address, and the tokens it holds (all of them
\* before its first request)
LoginKey(addr) == <<"login", addr>>
LoginTokens(bs, addr) ==
    IF LoginKey(addr) \in DOMAIN bs THEN bs[LoginKey(addr)].tokens
    ELSE RATE_LIMIT_LOGIN_LIMIT * Seconds(RATE_LIMIT_LOGIN_WINDOW)
OneToken == Seconds(RATE_LIMIT_LOGIN_WINDOW)

\* C15: the limiter's read, refill and consume happen in one step of the
\* request that arrives: an admitted request finds at least one token in the
\* bucket of its key as it is then and leaves exactly one fewer, a refused
\* one leaves the bucket's tokens alone, and other keys' buckets and the
\* later steps of requests do not touch it; so with no time passing a key
\* never has more requests admitted than its bucket had tokens.
C15_AllowIsAtomic ==
    /\ [][ /\ \A q \in inflight' :
                 q \notin inflight /\ q.id = nreq' =>
                    /\ LoginTokens(buckets, q.addr) >= OneToken
                    /\ LoginTokens(buckets', q.addr) = LoginTokens(buckets, q.addr) - OneToken
           /\ AnsweredOnArrival =>
                 /\ LoginTokens(buckets, last'.addr) < OneToken
                 /\ LoginTokens(buckets', last'.addr) = LoginTokens(buckets, last'.addr)
                 /\ Kind(last') = "RateLimited"
           /\ \A a \in {Proxied.peer, Proxied.xff[1]} :
                 LoginTokens(buckets', a) # LoginTokens(buckets, a)
                    => /\ nreq' # nreq
                       /\ \/ \E q \in inflight' : q.id = nreq' /\ q.addr = a
                          \/ AnsweredOnArrival /\ last'.addr = a
         ]_vars
    /\ [](\A a \in {Proxied.peer, Proxied.xff[1]} :
            /\ LoginTokens(buckets, a) >= 0
            /\ Cardinality({r \in inflight : r.addr = a /\ r.pc # "rate_limit"}) * OneToken
                  <= RATE_LIMIT_LOGIN_LIMIT * OneToken - LoginTokens(buckets, a))

\* one key has had more requests than tokens: five are in flight together,
\* the others were refused
C15_Witness ==
    /\ \E a \in {Proxied.peer, Proxied.xff[1]} :
          /\ Cardinality({r \in inflight : r.addr = a /\ r.pc = "select_user"})
                = RATE_LIMIT_LOGIN_LIMIT
          /\ LoginTokens(buckets, a) = 0
          /\ last.addr = a
    /\ Kind(last) = "RateLimited"
    /\ nreq > RATE_LIMIT_LOGIN_LIMIT

\* C16: in every reachable state no two rows of the table share a jti; every
\* step leaves each row in the table with its id, jti, user id and expiry,
\* and leaves a revoked row revoked.
C16_StoreInvariants ==
    /\ [](\A r1, r2 \in store : (r1.jti = r2.jti \/ r1.id = r2.id) => r1 = r2)
    /\ [][ \A r \in store :
              \E r2 \in store' :
                  /\ r2.id = r.id /\ r2.jti = r.jti /\ r2.user_id = r.user_id
                  /\ r2.expires_at = r.expires_at
                  /\ r.revoked => r2.revoked
         ]_vars

\* a login has succeeded after another session of the user was revoked
C16_Witness ==
    /\ last.op = "login" /\ last.status = 200
    /\ \E r1, r2 \in store : /\ r1.revoked /\ ~r2.revoked
                             /\ r1.user_id = r2.user_id
                             /\ r2.jti = last.refresh_token.jti

\* C17: a request that carried a valid access token of an active identity
\* was counted in the bucket (scope, identity id), not in a bucket of its
\* address.
C17_KeyedByIdentity ==
    (last.op = "me" /\ last.status = 200) =>
        <<"api", str(last.state_user_id)>> \in DOMAIN buckets

\* the whole of a bucket of the given capacity and window, in the units its
\* tokens are counted in
Full(capacity, window) == capacity * Unit(<<capacity, window>>)

\* C18: get_bucket returns a bucket of the capacity and rate asked; when the
\* key's bucket had that capacity and that rate it is the bucket as the call
\* before left it, tokens and last_refill; otherwise (no bucket yet, another
\* capacity or another rate) it is a new bucket with all its tokens.
C18_GetBucketKeepsOrResets ==
    \A i \in DOMAIN calls :
        LET c == calls[i]
            asked == <<c.capacity, c.window>>
            same == /\ i > 1
                    /\ calls[i - 1].capacity = c.capacity
                    /\ RateEq(<<calls[i - 1].capacity, calls[i - 1].window>>, asked)
        IN  /\ c.got.capacity = c.capacity
            /\ RateEq(c.got.refill_rate, asked)
            /\ IF same
               THEN /\ c.got.tokens = calls[i - 1].tokens
                    /\ c.got.last_refill = calls[i - 1].last_refill
               ELSE /\ c.got.tokens = Full(c.capacity, c.window)
                    /\ c.got.last_refill = c.at

\* a bucket was replaced for its capacity (the rate being the same), then
\* kept with the tokens left in it, then replaced for its rate
C18_Witness ==
    /\ Len(calls) = 4
    /\ <<calls[1].capacity, calls[1].window>>
          = <<2 * RATE_LIMIT_LOGIN_LIMIT, 2 * RATE_LIMIT_LOGIN_WINDOW>>
    /\ \A i \in 2..3 : <<calls[i].capacity, calls[i].window>>
                          = <<RATE_LIMIT_LOGIN_LIMIT, RATE_LIMIT_LOGIN_WINDOW>>
    /\ <<calls[4].capacity, calls[4].window>>
          = <<RATE_LIMIT_LOGIN_LIMIT, 2 * RATE_LIMIT_LOGIN_WINDOW>>
    /\ calls[1].tokens < Full(calls[1].capacity, calls[1].window)
    /\ calls[2].got.tokens = Full(calls[2].capacity, calls[2].window)
    /\ calls[2].ok
    /\ calls[3].got.tokens = calls[2].tokens
    /\ calls[3].got.tokens < Full(calls[3].capacity, calls[3].window)
    /\ calls[4].got.tokens = Full(calls[4].capacity, calls[4].window)

\* what the bucket a call was made on holds after its refill and before the
\* verdict: min(capacity, tokens + elapsed * refill_rate), in the bucket's units
Refilled(c) ==
    Min(Full(c.got.capacity, c.got.refill_rate[2]),
        c.got.tokens + (c.at - c.got.last_refill) * c.got.refill_rate[1])

\* C19: a call of allow(cost) is admitted exactly when the refilled value
\* min(capacity, tokens + elapsed * rate) is at least cost; a refused call
\* leaves the bucket with the refilled value, an admitted one with the
\* refilled value less cost.
C19_RefusalConsumesNothing ==
    \A i \in DOMAIN calls :
        LET c == calls[i]
            price == c.cost * Unit(c.got.refill_rate)
        IN  /\ c.ok <=> Refilled(c) >= price
            /\ ~c.ok => c.tokens = Refilled(c)
            /\ c.ok => c.tokens = Refilled(c) - price

\* a call was refused on a bucket that time had refilled in part, and kept
\* the refill; a call of cost 3 was admitted on a bucket time had refilled
C19_Witness ==
    /\ \E i \in DOMAIN calls :
          /\ ~calls[i].ok
          /\ calls[i].at > calls[i].got.last_refill
          /\ calls[i].tokens > calls[i].got.tokens
          /\ calls[i].tokens < Full(calls[i].capacity, calls[i].window)
    /\ \E j \in DOMAIN calls :
          /\ calls[j].ok /\ calls[j].cost = 3
          /\ calls[j].at > calls[j].got.last_refill
          /\ Refilled(calls[j]) > calls[j].got.tokens

\* the calls from the i-th to the j-th that were admitted
Admitted(i, j) == {k \in i..j : calls[k].ok}

\* C20: on one bucket called with allow(1) at moments that never go back,
\* the tokens stay between 0 and the capacity; of the calls made from one
\* call to a later one, T apart, at most capacity + T * capacity / window are
\* admitted; and each call credits the time since the call before, no more:
\* the bucket's last_refill is the moment of its latest call.
C20_BoundedAdmission ==
    /\ \A key \in DOMAIN buckets :
          /\ buckets[key].tokens >= 0
          /\ buckets[key].tokens <= Full(buckets[key].capacity, buckets[key].refill_rate[2])
    /\ \A i \in DOMAIN calls :
          /\ calls[i].tokens >= 0
          /\ calls[i].tokens <= Full(calls[i].capacity, calls[i].window)
          /\ calls[i].last_refill = calls[i].at
          /\ calls[i].got.last_refill = IF i = 1 THEN calls[i].at ELSE calls[i - 1].at
    /\ \A i, j \in DOMAIN calls :
          i <= j =>
              /\ calls[i].at <= calls[j].at
              /\ Cardinality(Admitted(i, j)) * Unit(calls[j].got.refill_rate)
                    <= Full(calls[j].capacity, calls[j].window)
                         + (calls[j].at - calls[i].at) * calls[j].capacity

\* the bound is met: over a stretch of time that is not empty, with a
\* refusal in it, as many calls were admitted as the bound allows
C20_Witness ==
    \E i, j \in DOMAIN calls :
        /\ i < j /\ calls[i].at < calls[j].at
        /\ \E k \in i..j : ~calls[k].ok /\ calls[k].at > calls[i].at /\ calls[k].tokens > 0
        /\ Cardinality(Admitted(i, j)) > calls[j].capacity
        /\ Cardinality(Admitted(i, j)) * Unit(calls[j].got.refill_rate)
              = Full(calls[j].capacity, calls[j].window)
                  + (calls[j].at - calls[i].at) * calls[j].capacity

====
